---- MODULE Spec2Model ----
(***************************************************************************)
(* Synchronisation engine of the expense tracker: the server's /sync/pull   *)
(* and /sync/push handlers (apps/backend/src/routes/sync.ts) and the        *)
(* client-side performSync driver with its local store (lib/sync.ts of the  *)
(* web and mobile apps).                                                    *)
(*                                                                         *)
(* Representation.  A JavaScript Date is an integer (milliseconds, scaled); *)
(* the invalid Date (NaN) is InvalidDate.  A date string on the wire is a   *)
(* tuple: <<"T", t>> is the ISO-8601 text of instant t, <<>> is the empty   *)
(* (falsy) string and <<"x">> is text no Date can be parsed from.  Other    *)
(* strings are TLA+ strings, "" being the falsy one; a missing JSON field   *)
(* is represented by the falsy value of its type.                           *)
(***************************************************************************)
EXTENDS Integers, Sequences, FiniteSets, TLC

\* ------------------------------------------------------------------ bounds
MaxTime == 2
MaxBatch == 2
MaxCycles == 2

Ids == {"a", "b"}
Users == {"u1", "u2"}
Times == 0..MaxTime

\* ------------------------------------------------------- dates and strings
InvalidDate == -1
NoString == <<>>
Garbage == <<"x">>

\* Date.prototype.toISOString / JSON serialisation of a Date
ToISOString(t) == <<"T", t>>

\* new Date(s) for a string s
NewDate(s) == IF Len(s) = 2 /\ s[1] = "T" THEN s[2] ELSE InvalidDate

\* JavaScript relational comparison of two Dates: false when either is NaN
DateGT(x, y) == x # InvalidDate /\ y # InvalidDate /\ x > y

\* mutant: the operands of < are swapped
DateLT_Swapped(x, y) == x # InvalidDate /\ y # InvalidDate /\ y < x

DateLT(x, y) == x # InvalidDate /\ y # InvalidDate /\ x < y

\* ------------------------------------------------------------ client input
\* the mutable fields of a transaction, as a client sends them
Fields(k) ==
  [amount |-> k, description |-> IF k = 1 THEN "d1" ELSE "d2",
   type |-> IF k = 1 THEN "income" ELSE "expense",
   categoryId |-> IF k = 1 THEN "c1" ELSE "c2",
   date |-> ToISOString(k)]

ClientTx(id, f, updatedAt) ==
  [id |-> id, amount |-> f.amount, description |-> f.description,
   type |-> f.type, categoryId |-> f.categoryId, date |-> f.date,
   updatedAt |-> updatedAt]

Stamps == {NoString} \cup {ToISOString(t) : t \in Times}

\* every version of transaction "a", and one content for the bystander "b"
ValidRecords ==
  {ClientTx("a", Fields(k), s) : k \in 1..2, s \in Stamps} \cup
  {ClientTx("b", Fields(1), s) : s \in Stamps}

\* records the validation or the store rejects
BadRecords ==
  LET f == Fields(1)
      s == ToISOString(1)
  IN { ClientTx("", f, s),
       ClientTx("a", [f EXCEPT !.amount = 0], s),
       ClientTx("a", [f EXCEPT !.description = ""], s),
       ClientTx("a", [f EXCEPT !.type = ""], s),
       ClientTx("a", [f EXCEPT !.categoryId = ""], s),
       ClientTx("a", [f EXCEPT !.date = NoString], s),
       ClientTx("a", [f EXCEPT !.date = Garbage], s),
       ClientTx("b", f, Garbage) }

Records == ValidRecords \cup BadRecords

\* records that are combined into batches of more than one record
BatchRecords ==
  { ClientTx("a", Fields(1), ToISOString(1)),
    ClientTx("a", Fields(2), ToISOString(2)),
    ClientTx("b", Fields(1), ToISOString(1)),
    ClientTx("a", [Fields(1) EXCEPT !.amount = 0], ToISOString(1)),
    ClientTx("a", [Fields(1) EXCEPT !.date = Garbage], ToISOString(1)) }

SeqsUpTo(S, n) == UNION {[1..m -> S] : m \in 0..n}

Batches == SeqsUpTo(BatchRecords, MaxBatch) \cup {<<r>> : r \in Records}

\* ------------------------------------------------------------------ state
VARIABLES
  db,       \* the transaction table: a function from the stored ids to rows
  clock,    \* the server's clock (new Date())
  req,      \* the request the server handled last, <<>> once it is answered
  resp,     \* the response to it
  hist,     \* history: the table before the request, the loop's states,
            \* the server time of the handling, whether it was a repetition
  alt,      \* the table had the two submitted requests arrived the other
            \* way round
  order,    \* the two push requests submitted together, and how far the
            \* server is with them
  cl,       \* per client: the local store (cursor, transactions), the
            \* position of performSync, its locals, its call on the network
  quiet,    \* no local edit and no network failure from now on
  dev,      \* one device: its session, its SyncProvider, its local store
  run,      \* the calls of that device in flight (performSync,
            \* upsertLocalTransaction), by slot
  cycles    \* how many performSync calls the device has started

vars ==
  <<db, clock, req, resp, hist, alt, order, cl, quiet, dev, run, cycles>>
orderVars == <<alt, order>>
clientVars == <<cl, quiet>>
deviceVars == <<dev, run, cycles>>

\* -------------------------------------------------------- the store (Prisma)
\* prisma.transaction.findUnique({where: {id}})
FindUnique(table, id) == IF id \in DOMAIN table THEN <<table[id]>> ELSE <<>>

\* Prisma rejects an invalid Date given for a DateTime column
StoreRejects(data) ==
  \/ data.date = InvalidDate
  \/ ("updatedAt" \in DOMAIN data /\ data.updatedAt = InvalidDate)

\* mutant: the store stamps updatedAt itself when data does not give it
PrismaUpdate_Touch(table, id, data) ==
  [table EXCEPT ![id] =
     [k \in DOMAIN @ |-> IF k \in DOMAIN data THEN data[k]
                         ELSE IF k = "updatedAt" THEN clock ELSE @[k]]]

\* prisma.transaction.update({where: {id}, data}): the columns of data are
\* written, the others are kept
PrismaUpdate(table, id, data) ==
  [table EXCEPT ![id] =
     [k \in DOMAIN @ |-> IF k \in DOMAIN data THEN data[k] ELSE @[k]]]

\* prisma.transaction.create({data})
PrismaCreate(table, data) ==
  [i \in DOMAIN table \cup {data.id} |-> IF i = data.id THEN data ELSE table[i]]

\* ------------------------------------------------------------ POST /push
NoResults == [created |-> 0, updated |-> 0, conflicts |-> 0, errors |-> <<>>]

\* the validation of the required fields
MissingRequired(tx) ==
  \/ tx.id = ""
  \/ tx.amount = 0
  \/ tx.description = ""
  \/ tx.type = ""
  \/ tx.categoryId = ""
  \/ tx.date = NoString

ErrorId(tx) == IF tx.id = "" THEN "unknown" ELSE tx.id

\* mutant: a record without updatedAt is taken as changed now
ClientUpdatedAt_Now(tx) ==
  IF tx.updatedAt # NoString THEN NewDate(tx.updatedAt) ELSE clock

\* const clientUpdatedAt = updatedAt ? new Date(updatedAt) : new Date(0)
ClientUpdatedAt(tx) ==
  IF tx.updatedAt # NoString THEN NewDate(tx.updatedAt) ELSE 0

\* mutant: the update is stamped with the server's clock
NewerData_ServerStamp(tx) ==
  [amount |-> tx.amount, description |-> tx.description, type |-> tx.type,
   categoryId |-> tx.categoryId, date |-> NewDate(tx.date),
   updatedAt |-> clock]

\* data of the update when the client's version is newer
NewerData(tx) ==
  [amount |-> tx.amount, description |-> tx.description, type |-> tx.type,
   categoryId |-> tx.categoryId, date |-> NewDate(tx.date),
   updatedAt |-> ClientUpdatedAt(tx)]

\* data of the update when the timestamps are the same
SameData(tx) ==
  [amount |-> tx.amount, description |-> tx.description, type |-> tx.type,
   categoryId |-> tx.categoryId, date |-> NewDate(tx.date)]

\* mutant: the created row is stamped with the server's clock
CreateData_ServerStamp(tx, userId, now) ==
  [id |-> tx.id, amount |-> tx.amount, description |-> tx.description,
   type |-> tx.type, categoryId |-> tx.categoryId, userId |-> userId,
   date |-> NewDate(tx.date), updatedAt |-> now]

\* data of the create
CreateData(tx, userId, now) ==
  [id |-> tx.id, amount |-> tx.amount, description |-> tx.description,
   type |-> tx.type, categoryId |-> tx.categoryId, userId |-> userId,
   date |-> NewDate(tx.date),
   updatedAt |-> IF tx.updatedAt # NoString THEN NewDate(tx.updatedAt) ELSE now]

StoreError(st, tx) ==
  [st EXCEPT !.results.errors =
     Append(@, [id |-> ErrorId(tx), error |-> "store error"])]

\* the branch the loop body takes for tx on the table
Branch(table, tx) ==
  IF MissingRequired(tx) THEN "invalid"
  ELSE IF FindUnique(table, tx.id) = <<>> THEN "create"
  ELSE IF DateGT(ClientUpdatedAt(tx), table[tx.id].updatedAt) THEN "newer"
  ELSE IF DateLT(ClientUpdatedAt(tx), table[tx.id].updatedAt) THEN "older"
  ELSE "same"

\* one iteration of the loop over clientTransactions;
\* st = [db, results], the table and the counters so far
PushRecord(st, userId, tx, now) ==
  LET br == Branch(st.db, tx) IN
  CASE br = "invalid" ->
         [st EXCEPT !.results.errors =
            Append(@, [id |-> ErrorId(tx), error |-> "Missing required fields"])]
    [] br = "newer" ->
         IF StoreRejects(NewerData(tx)) THEN StoreError(st, tx)
         ELSE [db |-> PrismaUpdate(st.db, tx.id, NewerData(tx)),
               results |-> [st.results EXCEPT !.updated = @ + 1]]
    [] br = "older" ->
         [st EXCEPT !.results.conflicts = @ + 1]
    [] br = "same" ->
         IF StoreRejects(SameData(tx)) THEN StoreError(st, tx)
         ELSE [db |-> PrismaUpdate(st.db, tx.id, SameData(tx)),
               results |-> [st.results EXCEPT !.updated = @ + 1]]
    [] br = "create" ->
         IF StoreRejects(CreateData(tx, userId, now)) THEN StoreError(st, tx)
         ELSE [db |-> PrismaCreate(st.db, CreateData(tx, userId, now)),
               results |-> [st.results EXCEPT !.created = @ + 1]]

\* mutant: a record with a missing field ends the loop
RECURSIVE PushLoop_Abort(_, _, _, _)
PushLoop_Abort(st, userId, batch, now) ==
  IF batch = <<>> THEN <<st>>
  ELSE IF MissingRequired(Head(batch))
  THEN <<st>> \o [i \in 1..Len(batch) |-> PushRecord(st, userId, Head(batch), now)]
  ELSE <<st>> \o PushLoop_Abort(PushRecord(st, userId, Head(batch), now),
                                userId, Tail(batch), now)

\* the loop: the states before the first record and after each record
RECURSIVE PushLoop(_, _, _, _)
PushLoop(st, userId, batch, now) ==
  IF batch = <<>> THEN <<st>>
  ELSE <<st>> \o PushLoop(PushRecord(st, userId, Head(batch), now),
                          userId, Tail(batch), now)

Last(s) == s[Len(s)]

\* the response of the push handler to body for the loop's states trace
PushResponse(body, trace, now) ==
  IF ~body.isArray
  THEN [status |-> 400, success |-> FALSE, data |-> <<>>]
  ELSE LET results == Last(trace).results IN
       [status |-> 200, success |-> TRUE,
        data |-> <<[created |-> results.created, updated |-> results.updated,
                    conflicts |-> results.conflicts, errors |-> results.errors,
                    serverTime |-> ToISOString(now)]>>]

PushTrace(table, userId, body, now) ==
  IF ~body.isArray THEN <<[db |-> table, results |-> NoResults]>>
  ELSE PushLoop([db |-> table, results |-> NoResults], userId,
                body.transactions, now)

\* ------------------------------------------------------------ POST /pull
PullBodies == [lastSync : Stamps \cup {Garbage}]

\* mutant: rows changed at lastSync itself are returned too
Matching_Inclusive(table, userId, body) ==
  {id \in DOMAIN table :
     /\ table[id].userId = userId
     /\ (body.lastSync # NoString => table[id].updatedAt >= NewDate(body.lastSync))}

\* the where clause: the user's rows, after lastSync when one is given
Matching(table, userId, body) ==
  {id \in DOMAIN table :
     /\ table[id].userId = userId
     /\ (body.lastSync # NoString => table[id].updatedAt > NewDate(body.lastSync))}

\* orderBy: {updatedAt: 'asc'}: every order of the rows the sort may produce
\* (rows of equal updatedAt come in any order)
Ordered(table, S) ==
  {s \in [1..Cardinality(S) -> S] :
     /\ \A i, j \in 1..Cardinality(S) : i # j => s[i] # s[j]
     /\ \A i, j \in 1..Cardinality(S) :
          i < j => table[s[i]].updatedAt <= table[s[j]].updatedAt}

\* a row as res.json serialises it
RowJSON(row) ==
  [id |-> row.id, amount |-> row.amount, description |-> row.description,
   type |-> row.type, categoryId |-> row.categoryId, userId |-> row.userId,
   date |-> ToISOString(row.date), updatedAt |-> ToISOString(row.updatedAt)]

\* the responses the pull handler may give
PullResponses(table, userId, body, now) ==
  IF body.lastSync # NoString /\ NewDate(body.lastSync) = InvalidDate
  THEN {[status |-> 500, success |-> FALSE, data |-> <<>>]}
  ELSE {[status |-> 200, success |-> TRUE,
         data |-> <<[transactions |-> [i \in DOMAIN s |-> RowJSON(table[s[i]])],
                     serverTime |-> ToISOString(now)]>>] :
          s \in Ordered(table, Matching(table, userId, body))}

\* ------------------------------------------------------------ the server
\* ------------------------------------------------- the client (lib/sync)
Clients == {"A", "B"}

\* the user whose token the client holds
UserOf(c) == "u1"

\* what the app writes with upsertLocalTransaction
LocalTxs ==
  { ClientTx("a", Fields(1), ToISOString(1)),
    ClientTx("a", Fields(2), ToISOString(2)) }

NoPushed == [created |-> 0, updated |-> 0, conflicts |-> 0]

\* a client after installation: empty storage, no performSync running
InitClient ==
  [cursor |-> NoString,      \* storage: last_sync_timestamp
   local |-> <<>>,           \* storage: local_transactions
   pc |-> "idle",            \* performSync: idle, in syncPush, in syncPull
   lastSync |-> NoString,    \* performSync: const lastSync
   pushResult |-> NoPushed,  \* performSync: let pushResult
   net |-> <<>>,             \* the call on the network
   result |-> <<>>]          \* what performSync returned last

\* upsertLocalTransaction: replace the first entry of the id, or append
UpsertLocal(local, tx) ==
  LET found == {i \in 1..Len(local) : local[i].id = tx.id} IN
  IF found # {}
  THEN LET index == CHOOSE i \in found : \A j \in found : i <= j
       IN [local EXCEPT ![index] = tx]
  ELSE Append(local, tx)

\* the fields performSync keeps of a pulled transaction
PulledTransaction(tx) ==
  [id |-> tx.id, amount |-> tx.amount, description |-> tx.description,
   type |-> tx.type, categoryId |-> tx.categoryId, date |-> tx.date,
   updatedAt |-> tx.updatedAt]

\* mutant: every pulled transaction is appended
MergePulled_All(existing, transactions) ==
  existing \o [i \in 1..Len(transactions) |-> PulledTransaction(transactions[i])]

\* [...existing, ...newTransactions]: the pulled transactions whose id is not
\* in the local store are appended
MergePulled(existing, transactions) ==
  LET existingIds == {existing[i].id : i \in 1..Len(existing)}
      NotExisting(t) == t.id \notin existingIds
      pulledTransactions ==
        [i \in 1..Len(transactions) |-> PulledTransaction(transactions[i])]
  IN existing \o SelectSeq(pulledTransactions, NotExisting)

PushCall(batch) ==
  <<[kind |-> "push", stage |-> "req",
     body |-> [isArray |-> TRUE, transactions |-> batch], resp |-> <<>>]>>

PullCall(lastSync) ==
  <<[kind |-> "pull", stage |-> "req",
     body |-> [lastSync |-> lastSync], resp |-> <<>>]>>

\* ------------------------------------- one device (SyncProvider, lib/sync)
Platforms == {"web", "mobile"}

\* the performSync calls that can be in flight together
Runs == {1, 2}

\* a device after installation: no session, the app not started
InitDevice ==
  [platform |-> "none",
   token |-> FALSE,        \* auth: an access token is stored
   mounted |-> FALSE,      \* SyncProvider: the effect ran and is not cleaned up
   interval |-> FALSE,     \* SyncProvider: the setInterval timer is active
   isSyncing |-> FALSE,    \* SyncProvider: the isSyncing state
   cursor |-> NoString,    \* storage: last_sync_timestamp
   local |-> <<>>,         \* storage: local_transactions
   returned |-> <<>>]      \* history: how the performSync call that returned
                           \* last ended, and what it returned

\* no performSync call in the slot
NoRun ==
  [pc |-> "idle",            \* idle, in syncPush, in syncPull
   origin |-> "none",        \* who called: mount, timer, manual, login
   lastSync |-> NoString,    \* const lastSync
   localTransactions |-> <<>>,  \* const localTransactions
   pushResult |-> NoPushed,  \* let pushResult
   net |-> <<>>,             \* the call on the network
   auth |-> FALSE,           \* the call carries an Authorization header
   push |-> "none"]          \* how syncPush ended: none, ok, refused, error

\* what the app of this device writes with upsertLocalTransaction: a
\* transaction, and an edit of it the server's validation refuses (amount 0)
DeviceTxs ==
  { ClientTx("a", Fields(1), ToISOString(1)),
    ClientTx("a", [Fields(1) EXCEPT !.amount = 0], ToISOString(1)) }

\* what the user's other device pushes
OtherTxs == { ClientTx("a", Fields(2), ToISOString(2)) }

\* requireAuth answers a request without Authorization header
Unauthorized == [status |-> 401, success |-> FALSE, data |-> <<>>]

NoOrder == [stage |-> 0, first |-> <<>>, second |-> <<>>, start |-> <<>>]

NoHist == [before |-> <<>>, trace |-> <<>>, now |-> 0, repeated |-> FALSE]

PushBodies ==
  [isArray : {TRUE}, transactions : Batches] \cup
  {[isArray |-> FALSE, transactions |-> <<>>]}

Init ==
  /\ db = <<>>
  /\ clock = 1
  /\ req = <<>>
  /\ resp = <<>>
  /\ hist = NoHist
  /\ alt = <<>>
  /\ order = NoOrder
  /\ cl = [c \in Clients |-> InitClient]
  /\ quiet = FALSE
  /\ dev = InitDevice
  /\ run = [r \in Runs |-> NoRun]
  /\ cycles = 0

\* time passes on the server
Tick ==
  /\ clock < MaxTime
  /\ clock' = clock + 1
  /\ UNCHANGED <<db, req, resp, hist, orderVars, clientVars, deviceVars>>

\* the push handler runs for userId's request
HandlePush(userId, body, repeated) ==
  LET trace == PushTrace(db, userId, body, clock) IN
  /\ db' = Last(trace).db
  /\ req' = <<[kind |-> "push", userId |-> userId, body |-> body]>>
  /\ resp' = <<PushResponse(body, trace, clock)>>
  /\ hist' = [before |-> db, trace |-> trace, now |-> clock,
              repeated |-> repeated]
  /\ UNCHANGED <<clock, orderVars, clientVars, deviceVars>>

\* a client sends a push request; requests are handled one after the other
Push(userId, body) ==
  /\ req = <<>>
  /\ HandlePush(userId, body, FALSE)

\* the client, left without an answer, sends the same push request again
Retry ==
  /\ req # <<>>
  /\ req[1].kind = "push"
  /\ HandlePush(req[1].userId, req[1].body, TRUE)

\* the pull handler runs for userId's request
Pull(userId, body) ==
  /\ req = <<>>
  /\ \E r \in PullResponses(db, userId, body, clock) : resp' = <<r>>
  /\ req' = <<[kind |-> "pull", userId |-> userId, body |-> body]>>
  /\ hist' = [before |-> db, trace |-> <<>>, now |-> clock, repeated |-> FALSE]
  /\ UNCHANGED <<db, clock, orderVars, clientVars, deviceVars>>

\* the answer reaches the client
Deliver ==
  /\ req # <<>>
  /\ req' = <<>>
  /\ resp' = <<>>
  /\ hist' = NoHist
  /\ UNCHANGED <<db, clock, orderVars, clientVars, deviceVars>>

Next ==
  \/ Tick
  \/ \E u \in Users, body \in PushBodies : Push(u, body)
  \/ Retry
  \/ \E u \in Users, body \in PullBodies : Pull(u, body)
  \/ Deliver

Spec == Init /\ [][Next]_vars

\* ------------------------------------------- two requests, both orders
\* Two clients push a record of the same id at about the same time; the
\* server handles the two requests one after the other.  db follows the
\* arrival order (first, second), alt the order (second, first).
OrderRecords ==
  {r \in ValidRecords : r.id = "a"} \cup
  {ClientTx("a", [Fields(1) EXCEPT !.date = Garbage], ToISOString(2))}

\* the table after the push handler ran for a request of the one record tx
Pushing(table, userId, tx, now) ==
  Last(PushTrace(table, userId, [isArray |-> TRUE, transactions |-> <<tx>>],
                 now)).db

\* an earlier push, the same in both orders
EarlierPush(userId, tx) ==
  /\ order.stage = 0
  /\ db' = Pushing(db, userId, tx, clock)
  /\ alt' = db'
  /\ UNCHANGED <<clock, req, resp, hist, order, clientVars, deviceVars>>

\* the two requests are sent
Submit(u1, tx1, u2, tx2) ==
  /\ order.stage = 0
  /\ order' = [stage |-> 1, first |-> <<[userId |-> u1, tx |-> tx1]>>,
               second |-> <<[userId |-> u2, tx |-> tx2]>>, start |-> db]
  /\ UNCHANGED <<db, clock, req, resp, hist, alt, clientVars, deviceVars>>

\* the server handles the request that arrived first
HandleFirst ==
  /\ order.stage = 1
  /\ db' = Pushing(db, order.first[1].userId, order.first[1].tx, clock)
  /\ alt' = Pushing(alt, order.second[1].userId, order.second[1].tx, clock)
  /\ order' = [order EXCEPT !.stage = 2]
  /\ UNCHANGED <<clock, req, resp, hist, clientVars, deviceVars>>

\* the server handles the request that arrived second
HandleSecond ==
  /\ order.stage = 2
  /\ db' = Pushing(db, order.second[1].userId, order.second[1].tx, clock)
  /\ alt' = Pushing(alt, order.first[1].userId, order.first[1].tx, clock)
  /\ order' = [order EXCEPT !.stage = 3]
  /\ UNCHANGED <<clock, req, resp, hist, clientVars, deviceVars>>

\* both are answered; the table is the one of the arrival order
Settle ==
  /\ order.stage = 3
  /\ alt' = db
  /\ order' = NoOrder
  /\ UNCHANGED <<db, clock, req, resp, hist, clientVars, deviceVars>>

NextOrder ==
  \/ Tick
  \/ \E u \in Users, tx \in OrderRecords : EarlierPush(u, tx)
  \/ \E u1, u2 \in Users, tx1, tx2 \in OrderRecords : Submit(u1, tx1, u2, tx2)
  \/ HandleFirst
  \/ HandleSecond
  \/ Settle

SpecOrder == Init /\ [][NextOrder]_vars

\* ------------------------------------------------- clients and server
\* the app stores a transaction the user created or edited
Upsert(c, tx) ==
  /\ ~quiet
  /\ cl' = [cl EXCEPT ![c].local = UpsertLocal(@, tx)]
  /\ UNCHANGED <<db, clock, req, resp, hist, orderVars, quiet, deviceVars>>

\* performSync starts: reads the cursor and the local transactions, and calls
\* syncPush when there are any, syncPull otherwise
StartSync(c) ==
  /\ cl[c].pc = "idle"
  /\ cl' = [cl EXCEPT ![c] =
       IF Len(cl[c].local) > 0
       THEN [cl[c] EXCEPT !.pc = "push", !.lastSync = cl[c].cursor,
                          !.pushResult = NoPushed, !.result = <<>>,
                          !.net = PushCall(cl[c].local)]
       ELSE [cl[c] EXCEPT !.pc = "pull", !.lastSync = cl[c].cursor,
                          !.pushResult = NoPushed, !.result = <<>>,
                          !.net = PullCall(cl[c].cursor)]]
  /\ UNCHANGED <<db, clock, req, resp, hist, orderVars, quiet, deviceVars>>

\* the server handles the client's push request
ServePush(c) ==
  /\ cl[c].net # <<>>
  /\ cl[c].net[1].kind = "push" /\ cl[c].net[1].stage = "req"
  /\ LET body == cl[c].net[1].body
         trace == PushTrace(db, UserOf(c), body, clock)
     IN /\ db' = Last(trace).db
        /\ cl' = [cl EXCEPT ![c].net =
                    <<[cl[c].net[1] EXCEPT
                         !.stage = "resp",
                         !.resp = <<PushResponse(body, trace, clock)>>]>>]
  /\ UNCHANGED <<clock, req, resp, hist, orderVars, quiet, deviceVars>>

\* the server handles the client's pull request
ServePull(c) ==
  /\ cl[c].net # <<>>
  /\ cl[c].net[1].kind = "pull" /\ cl[c].net[1].stage = "req"
  /\ \E r \in PullResponses(db, UserOf(c), cl[c].net[1].body, clock) :
       cl' = [cl EXCEPT ![c].net =
                <<[cl[c].net[1] EXCEPT !.stage = "resp", !.resp = <<r>>]>>]
  /\ UNCHANGED <<db, clock, req, resp, hist, orderVars, quiet, deviceVars>>

\* the network fails: the request or the response is lost, fetch rejects
NetworkError(c) ==
  /\ ~quiet
  /\ cl[c].net # <<>>
  /\ cl[c].net[1].stage \in {"req", "resp"}
  /\ cl' = [cl EXCEPT ![c].net =
              <<[cl[c].net[1] EXCEPT !.stage = "err", !.resp = <<>>]>>]
  /\ UNCHANGED <<db, clock, req, resp, hist, orderVars, quiet, deviceVars>>

\* a response the api client throws on: the call failed or the status is
\* not ok
Throws(call) == call.stage = "err" \/ call.resp[1].status # 200

\* syncPush returns or throws; performSync goes on to call syncPull with the
\* lastSync it read when it started
AfterPush(c) ==
  /\ cl[c].pc = "push"
  /\ cl[c].net[1].stage \in {"resp", "err"}
  /\ cl' = [cl EXCEPT ![c] =
       LET call == cl[c].net[1] IN
       IF ~Throws(call) /\ call.resp[1].success
       THEN [cl[c] EXCEPT !.pushResult = call.resp[1].data[1],
                          !.local = <<>>,
                          !.cursor = call.resp[1].data[1].serverTime,
                          !.pc = "pull", !.net = PullCall(cl[c].lastSync)]
       ELSE [cl[c] EXCEPT !.pc = "pull", !.net = PullCall(cl[c].lastSync)]]
  /\ UNCHANGED <<db, clock, req, resp, hist, orderVars, quiet, deviceVars>>

\* syncPull returns or throws; performSync merges and returns
AfterPull(c) ==
  /\ cl[c].pc = "pull"
  /\ cl[c].net[1].stage \in {"resp", "err"}
  /\ cl' = [cl EXCEPT ![c] =
       LET call == cl[c].net[1] IN
       IF ~Throws(call) /\ call.resp[1].success
       THEN LET data == call.resp[1].data[1]
                pulled == Len(data.transactions)
            IN [cl[c] EXCEPT
                  !.cursor = data.serverTime,
                  !.local = IF pulled > 0
                            THEN MergePulled(cl[c].local, data.transactions)
                            ELSE cl[c].local,
                  !.pc = "idle", !.net = <<>>,
                  !.result = <<[success |-> TRUE, pulled |-> pulled,
                                pushed |-> cl[c].pushResult]>>]
       ELSE [cl[c] EXCEPT !.pc = "idle", !.net = <<>>,
                          !.result = <<[success |-> TRUE, pulled |-> 0,
                                        pushed |-> cl[c].pushResult]>>]]
  /\ UNCHANGED <<db, clock, req, resp, hist, orderVars, quiet, deviceVars>>

\* the user stops editing and the network stays up
Quiesce ==
  /\ ~quiet
  /\ quiet' = TRUE
  /\ UNCHANGED <<db, clock, req, resp, hist, orderVars, cl, deviceVars>>

NextSync ==
  \/ Tick
  \/ \E c \in Clients, tx \in LocalTxs : Upsert(c, tx)
  \/ \E c \in Clients : StartSync(c)
  \/ \E c \in Clients : ServePush(c)
  \/ \E c \in Clients : ServePull(c)
  \/ \E c \in Clients : NetworkError(c)
  \/ \E c \in Clients : AfterPush(c)
  \/ \E c \in Clients : AfterPull(c)
  \/ Quiesce

SpecSync == Init /\ [][NextSync]_vars

\* every client keeps syncing (the 30 s timer), the server answers, and the
\* answers are processed
SyncFairness ==
  \A c \in Clients :
    /\ WF_vars(StartSync(c))
    /\ WF_vars(ServePush(c))
    /\ WF_vars(ServePull(c))
    /\ WF_vars(AfterPush(c))
    /\ WF_vars(AfterPull(c))

SpecSyncFair == SpecSync /\ SyncFairness

\* ------------------------------------------------ one device and the server
\* the slot a new performSync call takes
Idle == {r \in Runs : run[r].pc = "idle"}
Slot == CHOOSE r \in Idle : \A q \in Idle : r <= q

\* performSync starts: reads the cursor and the local transactions, and calls
\* syncPush when there are any, syncPull otherwise
Started(origin) ==
  IF Len(dev.local) > 0
  THEN [NoRun EXCEPT !.pc = "push", !.origin = origin,
                     !.lastSync = dev.cursor,
                     !.localTransactions = dev.local,
                     !.net = PushCall(dev.local), !.auth = dev.token]
  ELSE [NoRun EXCEPT !.pc = "pull", !.origin = origin,
                     !.lastSync = dev.cursor,
                     !.net = PullCall(dev.cursor), !.auth = dev.token]

PerformSync(origin) ==
  /\ Idle # {}
  /\ cycles < MaxCycles
  /\ run' = [run EXCEPT ![Slot] = Started(origin)]
  /\ cycles' = cycles + 1

\* SyncProvider.sync: when a token is stored, isSyncing is set and
\* performSync is called
Sync(origin) ==
  IF dev.token THEN PerformSync(origin) ELSE UNCHANGED <<run, cycles>>

\* the calls SyncProvider.sync made
OfProvider(origin) == origin \in {"mount", "timer"}

\* the app starts on platform p and SyncProvider's effect runs: with a token
\* it syncs and sets the 30 s timer (mobile: sets it once that sync is over),
\* without a token it does nothing
Mount(p) ==
  /\ ~dev.mounted
  /\ dev.platform \in {"none", p}
  /\ p = "mobile" =>
       \A r \in Runs : run[r].pc # "idle" => run[r].origin # "mount"
  /\ dev' = [dev EXCEPT !.platform = p, !.mounted = TRUE,
                        !.interval = dev.token /\ p = "web",
                        !.isSyncing = @ \/ dev.token]
  /\ Sync("mount")
  /\ UNCHANGED <<db, clock, req, resp, hist, orderVars, clientVars>>

\* SyncProvider is torn down: the effect's cleanup clears the timer
Unmount ==
  /\ dev.mounted
  /\ dev' = [dev EXCEPT !.mounted = FALSE, !.interval = FALSE]
  /\ UNCHANGED <<db, clock, req, resp, hist, orderVars, clientVars, run, cycles>>

\* the timer fires (mobile: a callback that finds the provider torn down
\* clears the timer and returns)
TimerTick ==
  /\ dev.interval
  /\ IF dev.platform = "mobile" /\ ~dev.mounted
     THEN /\ dev' = [dev EXCEPT !.interval = FALSE]
          /\ UNCHANGED <<run, cycles>>
     ELSE /\ dev' = [dev EXCEPT !.isSyncing = @ \/ dev.token]
          /\ Sync("timer")
  /\ UNCHANGED <<db, clock, req, resp, hist, orderVars, clientVars>>

\* the user logs in: the tokens are stored and the login screen calls
\* performSync
Login ==
  /\ ~dev.token
  /\ dev' = [dev EXCEPT !.token = TRUE]
  /\ Idle # {}
  /\ cycles < MaxCycles
  /\ run' = [run EXCEPT ![Slot] =
               [Started("login") EXCEPT !.auth = TRUE]]
  /\ cycles' = cycles + 1
  /\ UNCHANGED <<db, clock, req, resp, hist, orderVars, clientVars>>

\* the user logs out: the tokens are cleared
Logout ==
  /\ dev.token
  /\ dev' = [dev EXCEPT !.token = FALSE]
  /\ UNCHANGED <<db, clock, req, resp, hist, orderVars, clientVars, run, cycles>>

\* the user presses Sync Now on the settings page; the button is disabled
\* while the page's call is running and while isSyncing is set, and the
\* login screen is left only when its call has returned
SyncNow ==
  /\ dev.token
  /\ ~dev.isSyncing
  /\ \A r \in Runs :
       run[r].pc # "idle" => run[r].origin \notin {"manual", "login"}
  /\ PerformSync("manual")
  /\ UNCHANGED <<db, clock, req, resp, hist, orderVars, clientVars, dev>>

\* the app stores a transaction the user created or edited
LocalEdit(tx) ==
  /\ dev' = [dev EXCEPT !.local = UpsertLocal(@, tx)]
  /\ UNCHANGED <<db, clock, req, resp, hist, orderVars, clientVars, run, cycles>>

\* the user's other device pushes a transaction
OtherDevice(tx) ==
  /\ db' = Last(PushTrace(db, "u1", [isArray |-> TRUE,
                                      transactions |-> <<tx>>], clock)).db
  /\ UNCHANGED <<clock, req, resp, hist, orderVars, clientVars, deviceVars>>

\* the server handles the push request of call r; requireAuth refuses a
\* request without token or with an expired one
PushServed(r) ==
  /\ run[r].pc = "push" /\ run[r].net[1].stage = "req"
  /\ LET body == run[r].net[1].body
         trace == PushTrace(db, "u1", body, clock)
     IN \E authorized \in {run[r].auth, FALSE} :
          /\ db' = IF authorized THEN Last(trace).db ELSE db
          /\ run' = [run EXCEPT ![r].net =
                       <<[run[r].net[1] EXCEPT
                            !.stage = "resp",
                            !.resp = <<IF authorized
                                       THEN PushResponse(body, trace, clock)
                                       ELSE Unauthorized>>]>>]
  /\ UNCHANGED <<clock, req, resp, hist, orderVars, clientVars, dev, cycles>>

\* the server handles the pull request of call r
PullServed(r) ==
  /\ run[r].pc = "pull" /\ run[r].net[1].stage = "req"
  /\ \E answer \in {Unauthorized} \cup
                   IF run[r].auth
                   THEN PullResponses(db, "u1", run[r].net[1].body, clock)
                   ELSE {} :
       run' = [run EXCEPT ![r].net =
                 <<[run[r].net[1] EXCEPT !.stage = "resp",
                                         !.resp = <<answer>>]>>]
  /\ UNCHANGED <<db, clock, req, resp, hist, orderVars, clientVars, dev, cycles>>

\* the network fails: the request or the response is lost, fetch rejects
FetchFails(r) ==
  /\ run[r].pc # "idle"
  /\ run[r].net[1].stage \in {"req", "resp"}
  /\ run' = [run EXCEPT ![r].net =
               <<[run[r].net[1] EXCEPT !.stage = "err", !.resp = <<>>]>>]
  /\ UNCHANGED <<db, clock, req, resp, hist, orderVars, clientVars, dev, cycles>>

\* how a call on the network ended for performSync
Outcome(call) ==
  IF call.stage = "err" THEN "error"
  ELSE IF Throws(call) \/ ~call.resp[1].success THEN "refused"
  ELSE "ok"

\* mutant: the catch block of the push step ends the cycle
PushCaught_Return(st) == NoRun

\* the catch block of the push step: the error is logged and performSync
\* goes on to the pull step
PushCaught(st) ==
  [st EXCEPT !.pc = "pull", !.net = PullCall(st.lastSync)]

\* syncPush returns or throws; performSync goes on to call syncPull with the
\* lastSync it read when it started
PushReturns(r) ==
  LET call == run[r].net[1]
      st == [run[r] EXCEPT !.push = Outcome(call), !.auth = dev.token]
  IN /\ run[r].pc = "push"
     /\ call.stage \in {"resp", "err"}
     /\ IF Outcome(call) = "ok"
        THEN /\ dev' = [dev EXCEPT !.local = <<>>,
                          !.cursor = call.resp[1].data[1].serverTime]
             /\ run' = [run EXCEPT ![r] =
                          [st EXCEPT !.pushResult = call.resp[1].data[1],
                                     !.pc = "pull",
                                     !.net = PullCall(st.lastSync)]]
        ELSE /\ dev' = dev
             /\ run' = [run EXCEPT ![r] = PushCaught(st)]
     /\ UNCHANGED <<db, clock, req, resp, hist, orderVars, clientVars, cycles>>

\* the pushed member of the returned value
PushedCounts(pushResult) ==
  [created |-> pushResult.created, updated |-> pushResult.updated,
   conflicts |-> pushResult.conflicts]

\* mutant: an error of the pull step leaves performSync as an exception
PullCaught_Rethrow(st) == <<[thrown |-> TRUE]>>

\* the catch block of the pull step: the error is logged and performSync
\* returns
PullCaught(st) ==
  <<[success |-> TRUE, pulled |-> 0, pushed |-> PushedCounts(st.pushResult)]>>

\* syncPull returns or throws; performSync merges and returns; on mobile the
\* provider sets its timer when the sync it started on mount is over
PullReturns(r) ==
  LET call == run[r].net[1]
      st == run[r]
      timer == \/ dev.interval
               \/ dev.platform = "mobile" /\ st.origin = "mount"
      syncing == dev.isSyncing /\ ~OfProvider(st.origin)
      Returned(result) ==
        <<[push |-> st.push, pull |-> Outcome(call), result |-> result]>>
  IN /\ st.pc = "pull"
     /\ call.stage \in {"resp", "err"}
     /\ run' = [run EXCEPT ![r] = NoRun]
     /\ IF Outcome(call) = "ok"
        THEN LET data == call.resp[1].data[1]
                 pulled == Len(data.transactions)
             IN dev' = [dev EXCEPT
                          !.cursor = data.serverTime,
                          !.local = IF pulled > 0
                                    THEN MergePulled(@, data.transactions)
                                    ELSE @,
                          !.interval = timer, !.isSyncing = syncing,
                          !.returned = Returned(
                             <<[success |-> TRUE, pulled |-> pulled,
                                pushed |-> PushedCounts(st.pushResult)]>>)]
        ELSE dev' = [dev EXCEPT !.interval = timer, !.isSyncing = syncing,
                                !.returned = Returned(PullCaught(st))]
     /\ UNCHANGED <<db, clock, req, resp, hist, orderVars, clientVars, cycles>>

\* performSync as the login screen and the settings page call it, one call
\* at a time, while the user edits and the other device pushes
NextCycle ==
  \/ Tick
  \/ Idle = Runs /\ Login
  \/ Logout
  \/ Idle = Runs /\ SyncNow
  \/ \E tx \in DeviceTxs : LocalEdit(tx)
  \/ \E tx \in OtherTxs : OtherDevice(tx)
  \/ \E r \in Runs : PushServed(r)
  \/ \E r \in Runs : PullServed(r)
  \/ \E r \in Runs : FetchFails(r)
  \/ \E r \in Runs : PushReturns(r)
  \/ \E r \in Runs : PullReturns(r)

SpecCycle == Init /\ [][NextCycle]_vars

\* the server answers the calls and the answers are processed
CycleFairness ==
  \A r \in Runs :
    /\ WF_vars(PushServed(r))
    /\ WF_vars(PullServed(r))
    /\ WF_vars(PushReturns(r))
    /\ WF_vars(PullReturns(r))

SpecCycleFair == SpecCycle /\ CycleFairness

\* a device with or without a stored session (mobile keeps the tokens in
\* SecureStore, web keeps them in memory)
InitSession ==
  /\ db = <<>>
  /\ clock = 1
  /\ req = <<>>
  /\ resp = <<>>
  /\ hist = NoHist
  /\ alt = <<>>
  /\ order = NoOrder
  /\ cl = [c \in Clients |-> InitClient]
  /\ quiet = FALSE
  /\ dev \in {InitDevice,
              [InitDevice EXCEPT !.token = TRUE, !.platform = "mobile"]}
  /\ run = [r \in Runs |-> NoRun]
  /\ cycles = 0

\* the session, SyncProvider and the calls of performSync, overlapping as
\* they come, on a device whose local store stays empty; the screens are
\* rendered inside SyncProvider
NextDevice ==
  \/ Tick
  \/ \E p \in Platforms : Mount(p)
  \/ Unmount
  \/ TimerTick
  \/ dev.mounted /\ Login
  \/ dev.mounted /\ Logout
  \/ dev.mounted /\ SyncNow
  \/ \E r \in Runs : PullServed(r)
  \/ \E r \in Runs : FetchFails(r)
  \/ \E r \in Runs : PullReturns(r)

SpecDevice == InitSession /\ [][NextDevice]_vars

\* the timer fires while it is set, the server answers, and the answers are
\* processed
DeviceFairness ==
  /\ WF_vars(TimerTick)
  /\ \A r \in Runs :
       /\ WF_vars(PullServed(r))
       /\ WF_vars(PullReturns(r))

SpecDeviceFair == SpecDevice /\ DeviceFairness

\* ================================================================ claims
\* the request handled last is a push of an array, a pull that succeeded
Pushed == req # <<>> /\ req[1].kind = "push" /\ req[1].body.isArray
Pulled == req # <<>> /\ req[1].kind = "pull" /\ resp[1].success
Batch == req[1].body.transactions

\* the instant a record's updatedAt stands for; a record without one counts
\* as the epoch
Incoming(tx) == IF tx.updatedAt = NoString THEN 0 ELSE NewDate(tx.updatedAt)

AllPresent(tx) ==
  /\ tx.id # "" /\ tx.amount # 0 /\ tx.description # ""
  /\ tx.type # "" /\ tx.categoryId # "" /\ tx.date # NoString

\* a record with every required field, a date that parses and an updatedAt
\* that is absent or parses
WellFormed(tx) ==
  /\ AllPresent(tx)
  /\ NewDate(tx.date) # InvalidDate
  /\ Incoming(tx) # InvalidDate

\* row carries the mutable fields of tx
CarriesFields(row, tx) ==
  /\ row.amount = tx.amount
  /\ row.description = tx.description
  /\ row.type = tx.type
  /\ row.categoryId = tx.categoryId
  /\ row.date = NewDate(tx.date)

Counted(pre, post, c, u, k) ==
  /\ post.results.created = pre.results.created + c
  /\ post.results.updated = pre.results.updated + u
  /\ post.results.conflicts = pre.results.conflicts + k
  /\ post.results.errors = pre.results.errors

\* C3: a well-formed record whose id is stored with an older updatedAt
\* overwrites the five mutable fields, stores the client's updatedAt (not the
\* server's clock), and counts as exactly one update.
C3_NewerOverwrites ==
  Pushed =>
    \A i \in 1..Len(Batch) :
      LET tx == Batch[i]
          pre == hist.trace[i]
          post == hist.trace[i + 1]
      IN (/\ WellFormed(tx)
          /\ tx.id \in DOMAIN pre.db
          /\ Incoming(tx) > pre.db[tx.id].updatedAt)
         => /\ CarriesFields(post.db[tx.id], tx)
            /\ post.db[tx.id].updatedAt = Incoming(tx)
            /\ Counted(pre, post, 0, 1, 0)

\* an update of "a" by a record stamped differently from the server's clock
C3_Witness ==
  /\ Pushed /\ Len(Batch) = 1
  /\ "a" \in DOMAIN hist.before /\ Batch[1].id = "a"
  /\ WellFormed(Batch[1])
  /\ Incoming(Batch[1]) > hist.before["a"].updatedAt
  /\ Incoming(Batch[1]) # hist.now
  /\ hist.before["a"].amount # Batch[1].amount
  /\ resp[1].data[1].updated = 1

\* C4: a record (with its required fields) whose id is stored with a newer
\* updatedAt, a record without updatedAt counting as the epoch, changes no
\* row of the table and counts as exactly one conflict, not as an error; the
\* request succeeds.
C4_OlderDiscarded ==
  Pushed =>
    /\ resp[1].success /\ resp[1].status = 200
    /\ \A i \in 1..Len(Batch) :
         LET tx == Batch[i]
             pre == hist.trace[i]
             post == hist.trace[i + 1]
         IN (/\ AllPresent(tx)
             /\ tx.id \in DOMAIN pre.db
             /\ Incoming(tx) # InvalidDate
             /\ Incoming(tx) < pre.db[tx.id].updatedAt)
            => /\ post.db = pre.db
               /\ Counted(pre, post, 0, 0, 1)

\* a conflict on "a" of a record that carries other fields than the stored row
C4_Witness ==
  /\ Pushed /\ Len(Batch) = 1
  /\ "a" \in DOMAIN hist.before /\ Batch[1].id = "a"
  /\ Batch[1].updatedAt # NoString
  /\ Incoming(Batch[1]) < hist.before["a"].updatedAt
  /\ hist.before["a"].amount # Batch[1].amount
  /\ resp[1].data[1].conflicts = 1
  /\ db = hist.before

\* C5: a well-formed record whose id is not stored creates exactly one row,
\* owned by the pushing user, with the incoming fields and the incoming
\* updatedAt (the server's clock when the record has none); a batch of that
\* one record is answered created = 1, updated = 0, conflicts = 0, no errors.
C5_CreateWhenAbsent ==
  Pushed =>
    /\ \A i \in 1..Len(Batch) :
         LET tx == Batch[i]
             pre == hist.trace[i]
             post == hist.trace[i + 1]
         IN (WellFormed(tx) /\ tx.id \notin DOMAIN pre.db)
            => /\ DOMAIN post.db = DOMAIN pre.db \cup {tx.id}
               /\ \A j \in DOMAIN pre.db : post.db[j] = pre.db[j]
               /\ post.db[tx.id].id = tx.id
               /\ post.db[tx.id].userId = req[1].userId
               /\ CarriesFields(post.db[tx.id], tx)
               /\ post.db[tx.id].updatedAt =
                    (IF tx.updatedAt = NoString THEN hist.now ELSE Incoming(tx))
               /\ Counted(pre, post, 1, 0, 0)
    /\ (/\ Len(Batch) = 1 /\ WellFormed(Batch[1])
        /\ Batch[1].id \notin DOMAIN hist.before)
       => /\ resp[1].data[1].created = 1
          /\ resp[1].data[1].updated = 0
          /\ resp[1].data[1].conflicts = 0
          /\ resp[1].data[1].errors = <<>>

\* u2 creates "a", stamped differently from the server's clock, beside "b"
C5_Witness ==
  /\ Pushed /\ Len(Batch) = 1 /\ ~hist.repeated
  /\ req[1].userId = "u2"
  /\ DOMAIN hist.before = {"b"} /\ Batch[1].id = "a"
  /\ WellFormed(Batch[1]) /\ Batch[1].updatedAt # NoString
  /\ Incoming(Batch[1]) # hist.now
  /\ DOMAIN db = {"a", "b"}
  /\ db["a"].userId = "u2"

\* the records of the batch that added an entry to errors, and the others
Failed == {i \in 1..Len(Batch) :
             hist.trace[i + 1].results.errors # hist.trace[i].results.errors}
GoodIdx == (1..Len(Batch)) \ Failed
GoodBatch ==
  [k \in 1..Cardinality(GoodIdx) |->
     Batch[CHOOSE i \in GoodIdx : Cardinality({j \in GoodIdx : j <= i}) = k]]

C10_PullResult ==
  Pulled =>
    LET txs == resp[1].data[1].transactions
        since == req[1].body.lastSync
    IN /\ {txs[i].id : i \in 1..Len(txs)} =
            {id \in DOMAIN db :
               /\ db[id].userId = req[1].userId
               /\ (since = NoString \/ db[id].updatedAt > NewDate(since))}
       /\ \A i, j \in 1..Len(txs) : i # j => txs[i].id # txs[j].id
       /\ \A i \in 1..Len(txs) :
            /\ txs[i].userId = req[1].userId
            /\ CarriesFields(db[txs[i].id], txs[i])
            /\ NewDate(txs[i].updatedAt) = db[txs[i].id].updatedAt
       /\ \A i, j \in 1..Len(txs) :
            i < j => NewDate(txs[i].updatedAt) <= NewDate(txs[j].updatedAt)
       /\ resp[1].data[1].serverTime = ToISOString(hist.now)
       /\ db = hist.before

\* a pull with lastSync that returns one of the user's two rows
C10_Witness ==
  /\ Pulled
  /\ req[1].body.lastSync # NoString
  /\ DOMAIN db = {"a", "b"}
  /\ db["a"].userId = req[1].userId /\ db["b"].userId = req[1].userId
  /\ db["b"].updatedAt = NewDate(req[1].body.lastSync)
  /\ Len(resp[1].data[1].transactions) = 1

\* a pull without lastSync that returns two rows while the clock differs from
\* both
C10_WitnessAll ==
  /\ Pulled
  /\ req[1].body.lastSync = NoString
  /\ Len(resp[1].data[1].transactions) = 2
  /\ resp[1].data[1].transactions[1].updatedAt #
       resp[1].data[1].transactions[2].updatedAt

C7_RepushCountsNothing ==
  (Pushed /\ hist.repeated) =>
    /\ resp[1].data[1].created = 0
    /\ resp[1].data[1].updated = 0

\* both requests are handled, in both orders
BothHandled == order.stage = 3
P1 == order.first[1].tx
P2 == order.second[1].tx

\* the row of id in table carries tx's fields and updatedAt
StoredAs(table, tx) ==
  /\ tx.id \in DOMAIN table
  /\ CarriesFields(table[tx.id], tx)
  /\ table[tx.id].updatedAt = Incoming(tx)

\* C2: two well-formed payloads of one id with updatedAt T1 < T2, pushed as
\* two requests on a table where the id is absent or older than T1, leave the
\* row with the fields and the updatedAt of the T2 payload in either order.
C2_LastWriteWins ==
  (/\ BothHandled
   /\ WellFormed(P1) /\ WellFormed(P2)
   /\ P1.updatedAt # NoString /\ P2.updatedAt # NoString
   /\ Incoming(P1) < Incoming(P2)
   /\ ("a" \in DOMAIN order.start => order.start["a"].updatedAt < Incoming(P1)))
  => /\ StoredAs(db, P2)
     /\ StoredAs(alt, P2)

\* T1 < T2 on a stored older row, the payloads differing in their fields
C2_Witness ==
  /\ BothHandled
  /\ WellFormed(P1) /\ WellFormed(P2)
  /\ P1.updatedAt # NoString /\ P2.updatedAt # NoString
  /\ Incoming(P1) < Incoming(P2)
  /\ P1.amount # P2.amount
  /\ "a" \in DOMAIN order.start
  /\ order.start["a"].updatedAt < Incoming(P1)
  /\ StoredAs(db, P2) /\ StoredAs(alt, P2)

\* the two orders leave the same row of "a" (owner aside)
SameOutcome ==
  /\ ("a" \in DOMAIN db) = ("a" \in DOMAIN alt)
  /\ "a" \in DOMAIN db =>
       /\ db["a"].amount = alt["a"].amount
       /\ db["a"].description = alt["a"].description
       /\ db["a"].type = alt["a"].type
       /\ db["a"].categoryId = alt["a"].categoryId
       /\ db["a"].date = alt["a"].date
       /\ db["a"].updatedAt = alt["a"].updatedAt

HoldsRow(c, row) ==
  /\ Cardinality({i \in 1..Len(cl[c].local) : cl[c].local[i].id = row.id}) = 1
  /\ \A i \in 1..Len(cl[c].local) :
       cl[c].local[i].id = row.id =>
         /\ CarriesFields(row, cl[c].local[i])
         /\ NewDate(cl[c].local[i].updatedAt) = row.updatedAt

Converged ==
  \A c \in Clients :
    \A id \in DOMAIN db :
      db[id].userId = UserOf(c) => HoldsRow(c, db[id])

\* C1 (as claimed): once local edits have stopped and every sync cycle
\* succeeds, every client's local store eventually holds every transaction
\* the server stores for the user, with the server's values.
C1_Convergence == quiet ~> Converged


\* ------------------------------------------- the device: claims C11 to C20
\* the performSync calls in flight
InFlight == {r \in Runs : run[r].pc # "idle"}

\* C11: on one client instance at most one performSync cycle is in flight at
\* any time, whoever asks for a sync (timer, mount, Sync Now, login)
C11_OneCycleInFlight == Cardinality(InFlight) <= 1

\* the serverTime of the response call r holds
Received(r) ==
  IF run[r].pc # "idle" /\ run[r].net[1].stage = "resp"
     /\ run[r].net[1].resp[1].success
  THEN {run[r].net[1].resp[1].data[1].serverTime}
  ELSE {}

\* C14: every write of the persisted cursor stores a serverTime received from
\* the server that is greater than or equal to the value it replaces
C14_CursorMonotone ==
  [][dev'.cursor # dev.cursor =>
       /\ dev'.cursor \in UNION {Received(r) : r \in Runs}
       /\ dev.cursor # NoString =>
            NewDate(dev'.cursor) >= NewDate(dev.cursor)]_vars

\* this step starts a performSync call for the timer
TimerStarts ==
  \E r \in Runs : /\ run[r].pc = "idle"
                  /\ run'[r].pc # "idle"
                  /\ run'[r].origin = "timer"

\* C20: once a token is stored while SyncProvider is mounted the timer
\* comes to run (unless the session or the provider ends first, or
\* MaxCycles calls have been made), and the timer starts a cycle only while
\* the provider is mounted and a token is stored
C20_TimerFollowsSession ==
  /\ (dev.mounted /\ dev.token)
        ~> (dev.interval \/ ~dev.token \/ ~dev.mounted \/ cycles = MaxCycles)
  /\ [][TimerStarts => dev.mounted /\ dev.token]_vars

\* the ids of the entries of a local store
IdsOf(local) == {local[i].id : i \in 1..Len(local)}

\* a push response in the hands of some call confirms the acceptance of tx:
\* tx was in the batch sent and the response does not list it in errors
Accepted(tx) ==
  \E r \in Runs :
    /\ run[r].pc = "push"
    /\ run[r].net[1].stage = "resp"
    /\ run[r].net[1].resp[1].success
    /\ \E i \in 1..Len(run[r].net[1].body.transactions) :
         run[r].net[1].body.transactions[i] = tx
    /\ LET errors == run[r].net[1].resp[1].data[1].errors
       IN \A i \in 1..Len(errors) : errors[i].id # tx.id

\* C12: a transaction leaves the pending set only when a push response has
\* confirmed its acceptance: a record the response lists in errors, and a
\* record that was not in the batch sent, stay pending
C12_PendingUntilAccepted ==
  [][\A i \in 1..Len(dev.local) :
       dev.local[i].id \notin IdsOf(dev'.local) => Accepted(dev.local[i])]_vars

\* this step is the return of call r after a pull that succeeded
PullSucceeds(r) ==
  /\ run[r].pc = "pull"
  /\ run'[r].pc = "idle"
  /\ Outcome(run[r].net[1]) = "ok"

\* the positions of the entries of id in a local store
EntriesOf(local, id) == {j \in 1..Len(local) : local[j].id = id}

\* C13: after a successful pull the local store holds, for every returned
\* transaction, exactly one entry of its id, with the returned fields, also
\* when the id was in the local store before
C13_PullOverwrites ==
  [][\A r \in Runs :
       PullSucceeds(r) =>
         LET transactions == run[r].net[1].resp[1].data[1].transactions
         IN \A i \in 1..Len(transactions) :
              /\ Cardinality(EntriesOf(dev'.local, transactions[i].id)) = 1
              /\ \A j \in EntriesOf(dev'.local, transactions[i].id) :
                   dev'.local[j] = PulledTransaction(transactions[i])]_vars

\* this step is the end of call r's push step after a network error
PushFails(r) ==
  /\ run[r].pc = "push"
  /\ run[r].net[1].stage = "err"
  /\ run'[r] # run[r]

\* C15: when the push call fails with a network error the pull is still
\* attempted, and when that pull succeeds with N transactions performSync
\* returns pushed = {0, 0, 0}, pulled = N and success = true; no step of the
\* cycle changes or removes an entry of the local store
C15_PartialFailure ==
  [][\A r \in Runs :
       /\ PushFails(r) =>
            /\ run'[r].pc = "pull"
            /\ run'[r].net = PullCall(run[r].lastSync)
            /\ dev'.local = dev.local
       /\ PullSucceeds(r) /\ run[r].push = "error" =>
            /\ dev'.returned[1].result =
                 <<[success |-> TRUE,
                    pulled |->
                      Len(run[r].net[1].resp[1].data[1].transactions),
                    pushed |-> NoPushed]>>
            /\ \A i \in 1..Len(dev.local) : dev'.local[i] = dev.local[i]]_vars

\* a call whose push failed and whose pull brought a transaction has
\* returned, and the local store holds a pending entry
C15_Witness ==
  /\ dev.returned # <<>>
  /\ dev.returned[1].push = "error"
  /\ dev.returned[1].pull = "ok"
  /\ dev.returned[1].result[1].pulled > 0
  /\ DeviceTxs \cap {dev.local[i] : i \in 1..Len(dev.local)} # {}

\* C16: performSync returns success = false when both its push call and its
\* pull call failed with network errors
C16_TotalFailureReported ==
  dev.returned # <<>> =>
    LET ret == dev.returned[1] IN
    ret.push = "error" /\ ret.pull = "error" => ~ret.result[1].success

\* a value of the type performSync promises
ResultShape(v) ==
  /\ DOMAIN v = {"success", "pulled", "pushed"}
  /\ v.success \in BOOLEAN
  /\ v.pulled \in Nat
  /\ DOMAIN v.pushed = {"created", "updated", "conflicts"}
  /\ \A k \in DOMAIN v.pushed : v.pushed[k] \in Nat

C18_OneEntryPerId ==
  \A i, j \in 1..Len(dev.local) :
    dev.local[i].id = dev.local[j].id => i = j

\* a pull has brought a transaction whose id the local store already held
\* (the entry it holds is the one the app wrote)
C18_Witness ==
  /\ dev.returned # <<>>
  /\ dev.returned[1].pull = "ok"
  /\ dev.returned[1].result[1].pulled > 0
  /\ \E i \in 1..Len(dev.local) :
       dev.local[i] \in DeviceTxs /\ dev.local[i].id \in DOMAIN db

\* the ids a push response lists in errors
ErrorIds(pushResult) ==
  IF "errors" \in DOMAIN pushResult
  THEN {pushResult.errors[i].id : i \in 1..Len(pushResult.errors)}
  ELSE {}

\* C19: when a cycle whose push was accepted returns, the local store holds
\* an entry for every transaction of the batch the server did not list in
\* errors
C19_CacheRetention ==
  [][\A r \in Runs :
       run[r].pc = "pull" /\ run'[r].pc = "idle" /\ run[r].push = "ok" =>
         \A i \in 1..Len(run[r].localTransactions) :
           run[r].localTransactions[i].id \notin ErrorIds(run[r].pushResult)
             => run[r].localTransactions[i].id \in IdsOf(dev'.local)]_vars

\* ---------------------------------------- the local store fails: claim C21
\* what the outer catch block of performSync returns
OuterCaught ==
  <<[success |-> FALSE, pulled |-> 0, pushed |-> NoPushed]>>

\* performSync is called from the settings page and getLastSync or
\* getLocalTransactions throws: the outer catch block logs the error and
\* returns success: false
ReadFails ==
  /\ dev.token
  /\ ~dev.isSyncing
  /\ Idle = Runs
  /\ cycles < MaxCycles
  /\ cycles' = cycles + 1
  /\ dev' = [dev EXCEPT !.returned =
               <<[push |-> "none", pull |-> "none", result |-> OuterCaught]>>]
  /\ UNCHANGED <<db, clock, req, resp, hist, orderVars, clientVars, run>>

\* syncPush succeeded, pushResult is assigned, and setLocalTransactions([])
\* throws (nothing is written), or it succeeds and setLastSync throws (the
\* list is cleared, the cursor is not written); the catch block of the push
\* step logs the error and performSync goes on to the pull step
PushWriteFails(r) ==
  LET call == run[r].net[1]
      st == [run[r] EXCEPT !.push = "storage", !.auth = dev.token]
  IN /\ run[r].pc = "push"
     /\ call.stage = "resp"
     /\ Outcome(call) = "ok"
     /\ \E cleared \in BOOLEAN :
          dev' = [dev EXCEPT !.local = IF cleared THEN <<>> ELSE @]
     /\ run' = [run EXCEPT ![r] =
                  PushCaught([st EXCEPT !.pushResult = call.resp[1].data[1]])]
     /\ UNCHANGED <<db, clock, req, resp, hist, orderVars, clientVars, cycles>>

\* syncPull succeeded, pulled is assigned, and setLastSync throws (nothing is
\* written), or it succeeds and the read or the write of the merge throws
\* (the cursor is written, the pulled transactions are not); the catch block
\* of the pull step logs the error and performSync returns
PullWriteFails(r) ==
  LET call == run[r].net[1]
      st == run[r]
      timer == \/ dev.interval
               \/ dev.platform = "mobile" /\ st.origin = "mount"
      syncing == dev.isSyncing /\ ~OfProvider(st.origin)
  IN /\ st.pc = "pull"
     /\ call.stage = "resp"
     /\ Outcome(call) = "ok"
     /\ run' = [run EXCEPT ![r] = NoRun]
     /\ LET data == call.resp[1].data[1]
            pulled == Len(data.transactions)
        IN \E written \in {w \in BOOLEAN : w => pulled > 0} :
             dev' = [dev EXCEPT
                       !.cursor = IF written THEN data.serverTime ELSE @,
                       !.interval = timer, !.isSyncing = syncing,
                       !.returned =
                          <<[push |-> st.push, pull |-> "storage",
                             result |->
                               <<[success |-> TRUE, pulled |-> pulled,
                                  pushed |-> PushedCounts(st.pushResult)]>>]>>]
     /\ UNCHANGED <<db, clock, req, resp, hist, orderVars, clientVars, cycles>>

\* performSync, one call at a time, on a device whose local store may fail
NextStorage ==
  \/ Tick
  \/ Idle = Runs /\ Login
  \/ Idle = Runs /\ SyncNow
  \/ \E tx \in DeviceTxs : LocalEdit(tx)
  \/ \E r \in Runs : PushServed(r)
  \/ \E r \in Runs : PullServed(r)
  \/ \E r \in Runs : PushReturns(r)
  \/ \E r \in Runs : PullReturns(r)
  \/ ReadFails
  \/ \E r \in Runs : PushWriteFails(r)
  \/ \E r \in Runs : PullWriteFails(r)

SpecStorage == Init /\ [][NextStorage]_vars

\* a read or a write of the local store failed in the performSync call that
\* returned last
StorageFailed(ret) ==
  \/ ret.pull = "none"
  \/ ret.push = "storage"
  \/ ret.pull = "storage"

\* C21 (as claimed): a performSync call in which a read or a write of the
\* local store failed ends with an exception, not with a returned result
C21_StorageFaultThrown ==
  (dev.returned # <<>> /\ StorageFailed(dev.returned[1]))
    => dev.returned[1].result = <<[thrown |-> TRUE]>>

\* --------------------------- upsertLocalTransaction on mobile: claim C22
\* what the app writes with upsertLocalTransaction: two versions of "a",
\* and "b"
UpsertTxs ==
  { ClientTx("a", Fields(1), ToISOString(1)),
    ClientTx("a", Fields(2), ToISOString(2)),
    ClientTx("b", Fields(1), ToISOString(1)) }

\* an upsertLocalTransaction call that has read the list (const local) and
\* has not written it yet
Upserting(transaction, local) ==
  [pc |-> "upsert", origin |-> "app", transaction |-> transaction,
   local |-> local]

\* upsertLocalTransaction(transaction) is called and
\* await getLocalTransactions() gives it the stored list
UpsertReads(transaction) ==
  /\ Idle # {}
  /\ run' = [run EXCEPT ![Slot] = Upserting(transaction, dev.local)]
  /\ UNCHANGED <<db, clock, req, resp, hist, orderVars, clientVars, dev, cycles>>

\* the call goes on: the entry of the id is replaced, or the transaction is
\* appended, in the list the call read, and setLocalTransactions stores that
\* list
UpsertWrites(r) ==
  /\ run[r].pc = "upsert"
  /\ dev' = [dev EXCEPT
               !.local = UpsertLocal(run[r].local, run[r].transaction)]
  /\ run' = [run EXCEPT ![r] = NoRun]
  /\ UNCHANGED <<db, clock, req, resp, hist, orderVars, clientVars, cycles>>

\* the app calls upsertLocalTransaction without waiting for the call before
NextUpsert ==
  \/ \E transaction \in UpsertTxs : UpsertReads(transaction)
  \/ \E r \in Runs : UpsertWrites(r)

SpecUpsert == Init /\ [][NextUpsert]_vars

\* the entries of a list
EntrySet(local) == {local[i] : i \in 1..Len(local)}

\* C22 (as claimed): the write of an upsertLocalTransaction call keeps every
\* stored entry of another id, also when calls overlap: no upsert is
\* overwritten by the stale list of another call
C22_UpsertAtomic ==
  [][\A r \in Runs :
       (run[r].pc = "upsert" /\ run'[r].pc = "idle") =>
         \A i \in 1..Len(dev.local) :
           dev.local[i].id # run[r].transaction.id
             => dev.local[i] \in EntrySet(dev'.local)]_vars

\* --------------------------------- the cursor and the pull window: C23, C24
\* the server's row of id carries a version this device wrote
Originated(id) == \E tx \in DeviceTxs : tx.id = id /\ StoredAs(db, tx)

\* the device's first performSync call has returned; its push was accepted
\* and counted a conflict (the server held a newer version of the record
\* when it issued the serverTime of the response), and its pull failed: no
\* pull has delivered anything to this device
FirstCycleWithoutPull ==
  /\ cycles = 1
  /\ Idle = Runs
  /\ dev.returned # <<>>
  /\ dev.returned[1].push = "ok"
  /\ dev.returned[1].pull # "ok"
  /\ dev.returned[1].result[1].pushed.conflicts > 0

\* C23 (as claimed): the persisted cursor is a delivery boundary: every row
\* of the user that the server held, with updatedAt at or before the cursor,
\* when the cursor was issued has been delivered to the device by a
\* successful pull or was written by the device, also after a cycle whose
\* push succeeded and whose pull failed
C23_CursorBoundary ==
  (FirstCycleWithoutPull /\ dev.cursor # NoString) =>
    \A id \in DOMAIN db :
      (db[id].userId = "u1" /\ db[id].updatedAt <= NewDate(dev.cursor))
        => Originated(id)

\* the rows of the pushing user that the push handled last created or
\* changed
Changed ==
  {id \in DOMAIN db :
     /\ db[id].userId = req[1].userId
     /\ (id \notin DOMAIN hist.before \/ db[id] # hist.before[id])}

\* the cursors a device of the user can hold that were issued before the
\* push handled last: the server times before it
EarlierCursors == {c \in Times : 1 <= c /\ c < hist.now}

\* C24 (as claimed): a row that a push creates or overwrites after a
\* device's cursor was issued is returned by the pull the device makes next
\* with that cursor, whatever updatedAt the pushed record carries
C24_NoMissedUpdate ==
  Pushed =>
    \A c \in EarlierCursors :
      \A answer \in PullResponses(db, req[1].userId,
                                  [lastSync |-> ToISOString(c)], clock) :
        \A id \in Changed :
          \E i \in 1..Len(answer.data[1].transactions) :
            answer.data[1].transactions[i].id = id

\* ------------------------------------------ the stored updatedAt: claim C25
\* C25 (as claimed): every step of the push loop that changes a stored row
\* strictly increases the updatedAt of that row
C25_MutationAdvancesStamp ==
  Pushed =>
    \A i \in 1..Len(Batch) :
      LET pre == hist.trace[i]
          post == hist.trace[i + 1]
      IN \A id \in DOMAIN pre.db :
           post.db[id] # pre.db[id]
             => post.db[id].updatedAt > pre.db[id].updatedAt

\* ------------------------------------------- the batch of a push: claim C26
\* the transactions the push call of r sends
Sent(r) == EntrySet(run[r].net[1].body.transactions)

\* C26 (as claimed): the batch of a push holds only transactions the app of
\* this device wrote with upsertLocalTransaction; a transaction that came
\* into the local store with a pull (here: a version the other device
\* pushed) is not sent
C26_BatchIsLocalEdits ==
  \A r \in Runs : run[r].pc = "push" => Sent(r) \subseteq DeviceTxs

\* -------------------------------------- the cursor of the pull: claim C27
\* this step ends the push step of call r and issues its pull
PullIssued(r) == run[r].pc = "push" /\ run'[r].pc = "pull"

\* C27 (as claimed): the pull issued after the push step of a cycle carries
\* the cursor that is persisted at that moment: after an accepted push the
\* serverTime of the push response
C27_PullCarriesCursor ==
  [][\A r \in Runs :
       PullIssued(r) => run'[r].net[1].body.lastSync = dev'.cursor]_vars

\* ------------------------- two push requests handled together: claim C28
\* The handler awaits the store twice for a record (findUnique, then update
\* or create); while it waits the server runs the handler of another
\* request.  order holds the two requests and how far each handler is.
Handlers == {"first", "second"}

\* the handler of a request of the one record tx, before its findUnique
Handling(userId, tx) ==
  [userId |-> userId, tx |-> tx, pc |-> "find", existingTx |-> <<>>]

\* the two requests arrive
Arrive(u1, tx1, u2, tx2) ==
  /\ order.stage = 0
  /\ order' = [stage |-> 4, first |-> <<Handling(u1, tx1)>>,
               second |-> <<Handling(u2, tx2)>>, start |-> db]
  /\ UNCHANGED <<db, clock, req, resp, hist, alt, clientVars, deviceVars>>

\* handler k validates its record and awaits findUnique
Find(k) ==
  /\ order.stage = 4
  /\ order[k][1].pc = "find"
  /\ order' = [order EXCEPT ![k] =
       <<IF MissingRequired(order[k][1].tx)
         THEN [order[k][1] EXCEPT !.pc = "done"]
         ELSE [order[k][1] EXCEPT
                 !.pc = "write",
                 !.existingTx = FindUnique(db, order[k][1].tx.id)]>>]
  /\ UNCHANGED <<db, clock, req, resp, hist, alt, clientVars, deviceVars>>

\* the table as the handler saw it: the row it found, or none
Found(h) == [id \in {h.tx.id} \cap {i \in Ids : h.existingTx # <<>>} |->
               h.existingTx[1]]

\* the table after handler h went on from its findUnique: it compares with
\* the row it found and awaits update or create on the table as it is now
\* (create fails on an id that is stored by now)
WriteAfterFind(table, h, now) ==
  LET tx == h.tx
      br == Branch(Found(h), tx)
  IN CASE br = "newer" ->
            IF StoreRejects(NewerData(tx)) THEN table
            ELSE PrismaUpdate(table, tx.id, NewerData(tx))
       [] br = "same" ->
            IF StoreRejects(SameData(tx)) THEN table
            ELSE PrismaUpdate(table, tx.id, SameData(tx))
       [] br = "create" ->
            IF StoreRejects(CreateData(tx, h.userId, now))
               \/ tx.id \in DOMAIN table
            THEN table
            ELSE PrismaCreate(table, CreateData(tx, h.userId, now))
       [] OTHER -> table

\* handler k goes on after its findUnique
Write(k) ==
  /\ order.stage = 4
  /\ order[k][1].pc = "write"
  /\ db' = WriteAfterFind(db, order[k][1], clock)
  /\ alt' = db'
  /\ order' = [order EXCEPT ![k] = <<[order[k][1] EXCEPT !.pc = "done"]>>]
  /\ UNCHANGED <<clock, req, resp, hist, clientVars, deviceVars>>

\* both handlers are done
BothDone ==
  /\ order.stage = 4
  /\ \A k \in Handlers : order[k][1].pc = "done"

\* both requests are answered
Respond ==
  /\ BothDone
  /\ order' = NoOrder
  /\ UNCHANGED <<db, clock, req, resp, hist, alt, clientVars, deviceVars>>

NextRace ==
  \/ Tick
  \/ \E u \in Users, tx \in OrderRecords : EarlierPush(u, tx)
  \/ \E u1, u2 \in Users, tx1, tx2 \in OrderRecords : Arrive(u1, tx1, u2, tx2)
  \/ \E k \in Handlers : Find(k)
  \/ \E k \in Handlers : Write(k)
  \/ Respond

SpecRace == Init /\ [][NextRace]_vars

\* C28 (as claimed): when the handlers of two pushes of one stored id run
\* interleaved, the stored updatedAt does not decrease, and the row ends as
\* the payload that carries the greatest updatedAt of the stored one and the
\* two incoming ones (the stored row stays when it is the greatest)
C28_ConcurrentLastWriteWins ==
  (/\ BothDone
   /\ WellFormed(P1) /\ WellFormed(P2)
   /\ P1.updatedAt # NoString /\ P2.updatedAt # NoString
   /\ "a" \in DOMAIN order.start)
  => LET stored == order.start["a"] IN
     /\ db["a"].updatedAt >= stored.updatedAt
     /\ (Incoming(P1) > Incoming(P2) /\ Incoming(P1) > stored.updatedAt)
          => StoredAs(db, P1)
     /\ (Incoming(P2) > Incoming(P1) /\ Incoming(P2) > stored.updatedAt)
          => StoredAs(db, P2)
     /\ (stored.updatedAt > Incoming(P1) /\ stored.updatedAt > Incoming(P2))
          => db["a"] = stored

\* ------------------------------ an edit while the push is away: claim C29
\* this step handles the response of call r's push (or its failure)
PushHandled(r) == run[r].pc = "push" /\ run'[r].pc # "push"

\* C29 (as claimed): an entry the app wrote while the push request of a
\* cycle was in flight (a valid transaction that is in the local store and
\* not in the batch sent) is still in the local store when the cycle has
\* handled the push response
C29_EditDuringPushKept ==
  [][\A r \in Runs :
       PushHandled(r) =>
         \A tx \in EntrySet(dev.local) \ Sent(r) :
           ~MissingRequired(tx) => tx \in EntrySet(dev'.local)]_vars

\* --------------------------------------- the rows of other users: claim C30
\* C30 (as claimed): a push of user U leaves every row owned by another user
\* as it was, and changes the owner of no row, also when a record of the
\* batch carries the id of another user's row
C30_CrossUserIsolation ==
  Pushed =>
    \A id \in DOMAIN hist.before :
      /\ db[id].userId = hist.before[id].userId
      /\ hist.before[id].userId # req[1].userId => db[id] = hist.before[id]
====
